---- MODULE Spec2Model ----
(***************************************************************************)
(* A model of the voice_agent repository: the two SQLite stores, the two   *)
(* import scripts that fill them (create_hospital_service_db.py and        *)
(* create_user_db.py) and the FastAPI handlers of app.py that read them    *)
(* and call the watsonx inference endpoint.                                *)
(*                                                                         *)
(* Deployment modelled: the scripts and the service share one script       *)
(* directory, which is also the service's working directory; the scripts   *)
(* run with DB_PATH unset and without /app/data, so each writes the        *)
(* default file of its dataset in that directory.                          *)
(*                                                                         *)
(* Specifications: Spec (the scripts at provisioning time and one worker   *)
(* serving, never at the same moment), SpecPool (every worker serving on   *)
(* provisioned stores), SpecLive (the hospital script run while a worker   *)
(* serves hospital lookups), SpecRerun (the scripts run and run again over *)
(* fixture files that stay as they are).                                   *)
(***************************************************************************)
EXTENDS Integers, Sequences, FiniteSets, TLC

VARIABLES
    fs,         \* the files of the script directory: path -> store
    imp,        \* the import script being run, and where it is
    req,        \* the request each worker is handling, and where it is
    openConns,  \* SQLite connections the service holds open
    live        \* whether the scripts may run while the service handles requests

vars == <<fs, imp, req, openConns, live>>

(***************************************************************************)
(* Bounds of the model: the largest number of rows a table may hold, and   *)
(* the size of the worker pool.                                            *)
(***************************************************************************)
MaxHospitals == 2
MaxDepartments == 2
MaxDoctors == 1
MaxUsers == 1

\* The largest size of the pool of worker threads.
MaxWorkers == 2

\* Python's None, SQL's NULL, an unset environment variable.
NULL == "NULL"
Unset == "<unset>"

\* CURRENT_TIMESTAMP at the time of the import.
Now == "2025-01-01 00:00:00"

HOSPITAL_DB == "hospital_service.db"
USERS_DB == "users.db"
\* An override that names no existing file.
MISSING_DB == "/no/such/file.db"
Paths == {HOSPITAL_DB, USERS_DB}

\* The hospital and department ids the fixtures refer to.
RefIds == {1, 2}

\* The threads the worker pool may hold; a deployment starts some of them.
Slots == 1..MaxWorkers

\* The workers of the service: the threads that were started.
Workers == {w \in Slots : req[w].pc # "off"}

SeqsUpTo(S, n) == UNION {[1..k -> S] : k \in 0..n}

Range(s) == {s[i] : i \in DOMAIN s}

(***************************************************************************)
(* The stores.  A store is one SQLite file: whether it exists, the tables  *)
(* it has, and their rows in insertion order.  AUTOINCREMENT and the       *)
(* absence of any DELETE make a row's id its position in the table.        *)
(***************************************************************************)
NoFile ==
    [exists |-> FALSE, tables |-> {}, extra_column |-> FALSE,
     hospitals |-> <<>>, departments |-> <<>>, doctors |-> <<>>,
     users |-> <<>>]

\* What sqlite3.connect leaves at a path that held no file: an empty database.
EmptyFile == [NoFile EXCEPT !.exists = TRUE]

\* A users.db made by an earlier schema, with a column that the service does
\* not name (CREATE TABLE IF NOT EXISTS keeps such a table as it is).
LegacyUsersFile ==
    [EmptyFile EXCEPT !.tables = {"users"}, !.extra_column = TRUE]

HasExtraColumn(store) == store.extra_column

Exists(files, p) == p \in DOMAIN files /\ files[p].exists

\* sqlite3.connect(db_path): the file is created when it is not there.
SqliteConnect(files, p) ==
    IF files[p].exists THEN files ELSE [files EXCEPT ![p] = EmptyFile]

(***************************************************************************)
(* The fixtures (hospitals.json, departments.json, doctors.json,           *)
(* users.json): lists of records.  A record whose NOT NULL text column is  *)
(* null is one the insert rejects.                                         *)
(***************************************************************************)
HospitalRecords ==
    {[name |-> "Springfield General", city |-> "Springfield", state |-> "IL",
      phone |-> p] : p \in {"555-0100", NULL}}

DepartmentRecords ==
    {[name |-> n, phone |-> NULL, description |-> NULL, hospital_id |-> h] :
        n \in {"Pediatrics", NULL}, h \in RefIds}

DoctorRecords ==
    {[first_name |-> f, last_name |-> "Brown", phone |-> "555-1234",
      speciality |-> NULL, hospital_id |-> h, department_id |-> d] :
        f \in {"Ann", NULL}, h \in RefIds, d \in RefIds}

UserRecords ==
    {[first_name |-> "Ada", last_name |-> "King", date_of_birth |-> b,
      state |-> "NY", address |-> "1 Main St", phone |-> NULL,
      email |-> "ada@example.org", gender |-> NULL] :
        b \in {"1990-01-01", NULL}}

\* The fixture files, under one key of fs.
JSON == "*.json"

\* Fixture files that are edited between runs: a run may load any lists.
AnyJson == [fixed |-> FALSE]

\* Fixture files that stay as they are: every run loads the same lists.
FixedJson(hospitals, departments, doctors, users) ==
    [fixed |-> TRUE, hospitals |-> hospitals, departments |-> departments,
     doctors |-> doctors, users |-> users]

\* The script directory: the stores and the fixture files.
ScriptDir(stores, json) == stores @@ (JSON :> json)

(***************************************************************************)
(* The schema: CREATE TABLE IF NOT EXISTS.  The FOREIGN KEY clauses are    *)
(* declared, and SQLite enforces them only under PRAGMA foreign_keys = ON, *)
(* which neither script issues: an insert checks NOT NULL and nothing else.*)
(***************************************************************************)
HospitalTables == {"hospitals", "departments", "doctors"}

create_hospital_service_schema(store) ==
    [store EXCEPT !.tables = @ \cup HospitalTables]

create_user_metadata_table(store) ==
    [store EXCEPT !.tables = @ \cup {"users"}]

\* Whether the declared foreign keys are checked at an insert.
ForeignKeysEnforced == FALSE

HospitalRow(id, rec) ==
    [id |-> id, name |-> rec.name, city |-> rec.city, state |-> rec.state,
     phone |-> rec.phone, created_at |-> Now, updated_at |-> Now]

DepartmentRow(id, rec) ==
    [id |-> id, name |-> rec.name, phone |-> rec.phone,
     description |-> rec.description, hospital_id |-> rec.hospital_id,
     created_at |-> Now, updated_at |-> Now]

DoctorRow(id, rec) ==
    [id |-> id, first_name |-> rec.first_name, last_name |-> rec.last_name,
     phone |-> rec.phone, speciality |-> rec.speciality,
     hospital_id |-> rec.hospital_id, department_id |-> rec.department_id,
     created_at |-> Now, updated_at |-> Now]

UserRow(id, rec, extra) ==
    LET row == [id |-> id, first_name |-> rec.first_name,
                last_name |-> rec.last_name,
                date_of_birth |-> rec.date_of_birth, state |-> rec.state,
                address |-> rec.address, phone |-> rec.phone,
                email |-> rec.email, gender |-> rec.gender,
                created_at |-> Now, updated_at |-> Now]
    IN  IF extra THEN row @@ [ssn |-> NULL] ELSE row

IdsOf(rows) == {rows[i].id : i \in DOMAIN rows}

\* The constraints an INSERT INTO hospitals checks.
HospitalAccepted(store, rec) ==
    rec.name # NULL /\ rec.city # NULL /\ rec.state # NULL /\ rec.phone # NULL

\* The constraints an INSERT INTO departments checks.
DepartmentAccepted(store, rec) ==
    /\ rec.name # NULL
    /\ ForeignKeysEnforced => rec.hospital_id \in IdsOf(store.hospitals)

\* The constraints an INSERT INTO doctors checks.
DoctorAccepted(store, rec) ==
    /\ rec.first_name # NULL /\ rec.last_name # NULL
    /\ ForeignKeysEnforced =>
          /\ rec.hospital_id \in IdsOf(store.hospitals)
          /\ rec.department_id \in IdsOf(store.departments)

\* The constraints an INSERT INTO users checks.
UserAccepted(store, rec) ==
    /\ rec.first_name # NULL /\ rec.last_name # NULL
    /\ rec.date_of_birth # NULL /\ rec.state # NULL /\ rec.address # NULL

(***************************************************************************)
(* The insert steps.  Each runs its INSERTs in one transaction and commits *)
(* after the last: the result is the store with every record appended, or *)
(* (ok = FALSE) the store as it was, when a record was rejected.           *)
(***************************************************************************)
insert_hospitals(store, data) ==
    IF \A i \in DOMAIN data : HospitalAccepted(store, data[i])
    THEN [ok |-> TRUE,
          store |-> [store EXCEPT !.hospitals = @ \o
              [i \in DOMAIN data |-> HospitalRow(Len(store.hospitals) + i, data[i])]]]
    ELSE [ok |-> FALSE, store |-> store]

\* Variant: every INSERT is committed as it is executed, so the records
\* before a rejected one stay.
insert_departments_row_by_row(store, data) ==
    LET bad == {i \in DOMAIN data : ~DepartmentAccepted(store, data[i])}
        kept == IF bad = {} THEN data
                ELSE SubSeq(data, 1, (CHOOSE i \in bad : \A j \in bad : i <= j) - 1)
    IN  [ok |-> bad = {},
         store |-> [store EXCEPT !.departments = @ \o
             [i \in DOMAIN kept |-> DepartmentRow(Len(store.departments) + i, kept[i])]]]

insert_departments(store, data) ==
    IF \A i \in DOMAIN data : DepartmentAccepted(store, data[i])
    THEN [ok |-> TRUE,
          store |-> [store EXCEPT !.departments = @ \o
              [i \in DOMAIN data |-> DepartmentRow(Len(store.departments) + i, data[i])]]]
    ELSE [ok |-> FALSE, store |-> store]

insert_doctors(store, data) ==
    IF \A i \in DOMAIN data : DoctorAccepted(store, data[i])
    THEN [ok |-> TRUE,
          store |-> [store EXCEPT !.doctors = @ \o
              [i \in DOMAIN data |-> DoctorRow(Len(store.doctors) + i, data[i])]]]
    ELSE [ok |-> FALSE, store |-> store]

insert_user_metadata(store, data) ==
    IF \A i \in DOMAIN data : UserAccepted(store, data[i])
    THEN [ok |-> TRUE,
          store |-> [store EXCEPT !.users = @ \o
              [i \in DOMAIN data |->
                  UserRow(Len(store.users) + i, data[i], HasExtraColumn(store))]]]
    ELSE [ok |-> FALSE, store |-> store]

(***************************************************************************)
(* The service (app.py).  A request is handled by one worker, statement by *)
(* statement; log lists the storage and endpoint operations it has issued. *)
(***************************************************************************)
NotFoundStatus == 404
ServerErrorStatus == 500

NoBody == [none |-> TRUE]

\* The child tables of a store, as a lookup finds them when it reads the
\* hospital row.
ChildTables(store) ==
    [departments |-> store.departments, doctors |-> store.doctors]

IdleReq ==
    [kind |-> "none", pc |-> "idle", id |-> 0, env |-> Unset, db_path |-> "",
     url |-> "", apikey |-> "", hospital_dict |-> NoBody, departments |-> <<>>,
     snapshot |-> ChildTables(NoFile), fault |-> NULL, status |-> 0, detail |-> <<>>,
     body |-> NoBody, log |-> <<>>]

\* A thread of the pool that was not started.
OffReq == [pc |-> "off"]

NoRequestInFlight == \A w \in Workers : req[w].pc = "idle"

\* The ids requests ask for: those a table can hold, and one past them.
RequestIds == 1..(MaxHospitals + 1)

\* DB_PATH as the service may find it.
DbPathEnv == {Unset, HOSPITAL_DB, USERS_DB, MISSING_DB}

\* WATSONX_URL, WATSONX_APIKEY as the service may find them.
CredentialEnv == {Unset, "", "set"}

\* What the model may answer.
ModelOutputs == {"555-1234", "The phone number is 555-1234."}

\* os.getenv("DB_PATH", default), and the fallback when that path has no file.
ResolveDbPath(env, default) ==
    LET db_path == IF env = Unset THEN default ELSE env
    IN  IF ~Exists(fs, db_path) THEN default ELSE db_path

HospitalDbPath(env) == ResolveDbPath(env, HOSPITAL_DB)

UserDbPath(env) == ResolveDbPath(env, USERS_DB)

HTTPException(status, detail) ==
    [type |-> "HTTPException", status |-> status, detail |-> detail]

SqliteError(msg) ==
    [type |-> "sqlite3.Error", status |-> 0, detail |-> <<msg>>]

\* raise HTTPException(status_code=404, detail=...)
NotFound(what) == HTTPException(NotFoundStatus, <<what>>)

\* Variant: the except clause catches every exception (except Exception).
ExceptAnyException(exc) ==
    HTTPException(ServerErrorStatus, <<"Database error: ">> \o exc.detail)

\* Variant: the except clause answers without the driver's message.
ExceptSqliteErrorNoMessage(exc) ==
    IF exc.type = "sqlite3.Error"
    THEN HTTPException(ServerErrorStatus, <<"Database error">>)
    ELSE exc

\* except sqlite3.Error as e: raise HTTPException(500, f"Database error: {e}").
\* Any other exception passes through.
ExceptSqliteError(exc) ==
    IF exc.type = "sqlite3.Error"
    THEN HTTPException(ServerErrorStatus, <<"Database error: ">> \o exc.detail)
    ELSE exc

\* Variant: conn.close() stands before the return instead of in a finally.
CloseOnReturnOnly(conns, exit) == IF exit = "return" THEN conns - 1 ELSE conns

\* finally: if 'conn' in locals(): conn.close().  exit is how the try block
\* was left; the connection is closed either way.
FinallyClose(conns, exit) == conns - 1

\* cursor.execute on a table: the driver's error, or NULL when it ran.
ExecuteError(store, table, io_ok) ==
    IF ~io_ok THEN "disk I/O error"
    ELSE IF table \notin store.tables THEN "no such table: " \o table
    ELSE NULL

\* SELECT * FROM hospitals WHERE id = ?
SelectHospital(store, hospital_id) ==
    LET Match(row) == row.id = hospital_id
    IN  SelectSeq(store.hospitals, Match)

\* Variant: the WHERE clause compares the department's own id.
SelectDepartmentsById(store, hospital_id) ==
    LET Match(row) == row.id = hospital_id
    IN  SelectSeq(store.departments, Match)

\* SELECT * FROM departments WHERE hospital_id = ?
SelectDepartments(store, hospital_id) ==
    LET Match(row) == row.hospital_id = hospital_id
    IN  SelectSeq(store.departments, Match)

\* Variant: the WHERE clause compares the doctor's department.
SelectDoctorsByDepartment(store, hospital_id) ==
    LET Match(row) == row.department_id = hospital_id
    IN  SelectSeq(store.doctors, Match)

\* SELECT * FROM doctors WHERE hospital_id = ?
SelectDoctors(store, hospital_id) ==
    LET Match(row) == row.hospital_id = hospital_id
    IN  SelectSeq(store.doctors, Match)

\* The columns get_user_details names.
UserSelectColumns ==
    {"id", "first_name", "last_name", "date_of_birth", "state", "address",
     "phone", "email", "gender", "created_at", "updated_at"}

\* Variant: SELECT * FROM users WHERE id = ?
SelectUserStar(store, user_id) ==
    LET Match(row) == row.id = user_id
    IN  SelectSeq(store.users, Match)

\* SELECT id, first_name, ... FROM users WHERE id = ?
SelectUser(store, user_id) ==
    LET Match(row) == row.id = user_id
        rows == SelectSeq(store.users, Match)
    IN  [i \in DOMAIN rows |-> [c \in UserSelectColumns |-> rows[i][c]]]

\* if not watsonx_ai_url or not apikey
Falsy(value) == value = Unset \/ value = ""

\* Variant: the error is raised only when both are missing.
ConfigMissingBoth(url, apikey) == Falsy(url) /\ Falsy(apikey)

ConfigMissing(url, apikey) == Falsy(url) \/ Falsy(apikey)

Logged(r, op) == [r EXCEPT !.log = Append(@, op)]

\* The end of a handler: the response of the request.
Respond(r, status, detail, body) ==
    [r EXCEPT !.pc = "done", !.status = status, !.detail = detail,
              !.body = body]

\* get_hospital_details raises exc: to the client, or to call_watsonx, whose
\* except HTTPException re-raises it as a 500 carrying the detail.
RaiseFromLookup(r, exc) ==
    IF r.kind = "watsonx"
    THEN Respond(r, ServerErrorStatus,
                 <<"Failed to retrieve hospital data: ">> \o exc.detail, NoBody)
    ELSE Respond(r, exc.status, exc.detail, NoBody)

\* get_hospital_details returns hospital_dict: to the client, or to
\* call_watsonx, which goes on to the prompt.
ReturnFromLookup(r, hospital_dict) ==
    IF r.kind = "watsonx"
    THEN [r EXCEPT !.pc = "generate", !.body = hospital_dict]
    ELSE Respond(r, 200, <<>>, hospital_dict)

\* Variant: the service handles one request at a time.
MayStartOneAtATime(w) ==
    req[w].pc = "idle" /\ NoRequestInFlight /\ (live \/ imp.pc = "idle")

\* A worker takes up a request when it is free; where the scripts run at
\* provisioning time only, not while a script runs.
MayStart(w) == req[w].pc = "idle" /\ (live \/ imp.pc = "idle")

\* GET /hospital/{hospital_id}, lines 44-46.
get_hospital_details(w, ids, envs) ==
    /\ MayStart(w)
    /\ \E hospital_id \in ids, env \in envs :
          req' = [req EXCEPT ![w] =
              [IdleReq EXCEPT !.kind = "hospital", !.pc = "connect",
                              !.id = hospital_id, !.env = env,
                              !.db_path = HospitalDbPath(env)]]
    /\ UNCHANGED <<fs, imp, openConns, live>>

\* GET /user/{user_id}, lines 90-92.
get_user_details(w, ids, envs) ==
    /\ MayStart(w)
    /\ \E user_id \in ids, env \in envs :
          req' = [req EXCEPT ![w] =
              [IdleReq EXCEPT !.kind = "user", !.pc = "connect",
                              !.id = user_id, !.env = env,
                              !.db_path = UserDbPath(env)]]
    /\ UNCHANGED <<fs, imp, openConns, live>>

\* A handler leaves its try block by an exception raised while the
\* connection is open.
RaiseWithConn(w, r, exc) ==
    /\ req' = [req EXCEPT ![w] =
          IF r.kind = "user"
          THEN Respond(r, ExceptSqliteError(exc).status,
                       ExceptSqliteError(exc).detail, NoBody)
          ELSE RaiseFromLookup(r, ExceptSqliteError(exc))]
    /\ openConns' = FinallyClose(openConns, "raise")

\* conn = sqlite3.connect(db_path), of either handler.
Connect(w) ==
    /\ req[w].pc = "connect"
    /\ \E opened \in BOOLEAN :
          LET r == Logged(req[w], "connect") IN
          IF opened
          THEN /\ fs' = SqliteConnect(fs, r.db_path)
               /\ openConns' = openConns + 1
               /\ req' = [req EXCEPT ![w] =
                     [r EXCEPT !.pc = IF r.kind = "user" THEN "select_user"
                                      ELSE "select_hospital"]]
          ELSE \* no conn in locals(): nothing to close
               LET exc == ExceptSqliteError(SqliteError("unable to open database file"))
                   f == [r EXCEPT !.fault = "unable to open database file"]
               IN  /\ req' = [req EXCEPT ![w] =
                         IF r.kind = "user"
                         THEN Respond(f, exc.status, exc.detail, NoBody)
                         ELSE RaiseFromLookup(f, exc)]
                   /\ UNCHANGED <<fs, openConns>>
    /\ UNCHANGED <<imp, live>>

\* Lines 52-56: the hospital row, or 404.
FetchHospital(w) ==
    /\ req[w].pc = "select_hospital"
    /\ \E io_ok \in BOOLEAN :
          LET r == Logged(req[w], "select_hospital")
              store == fs[r.db_path]
              err == ExecuteError(store, "hospitals", io_ok)
              rows == SelectHospital(store, r.id)
          IN  IF err # NULL
              THEN RaiseWithConn(w, [r EXCEPT !.fault = err], SqliteError(err))
              ELSE IF rows = <<>>
              THEN RaiseWithConn(w, r, NotFound("Hospital not found"))
              ELSE /\ req' = [req EXCEPT ![w] =
                         [r EXCEPT !.pc = "select_departments",
                                   !.hospital_dict = rows[1],
                                   !.snapshot = ChildTables(store)]]
                   /\ UNCHANGED openConns
    /\ UNCHANGED <<fs, imp, live>>

\* Lines 58-59.
FetchDepartments(w) ==
    /\ req[w].pc = "select_departments"
    /\ \E io_ok \in BOOLEAN :
          LET r == Logged(req[w], "select_departments")
              store == fs[r.db_path]
              err == ExecuteError(store, "departments", io_ok)
          IN  IF err # NULL
              THEN RaiseWithConn(w, [r EXCEPT !.fault = err], SqliteError(err))
              ELSE /\ req' = [req EXCEPT ![w] =
                         [r EXCEPT !.pc = "select_doctors",
                                   !.departments = SelectDepartments(store, r.id)]]
                   /\ UNCHANGED openConns
    /\ UNCHANGED <<fs, imp, live>>

\* Lines 61-65, and the finally clause on the way out.
FetchDoctors(w) ==
    /\ req[w].pc = "select_doctors"
    /\ \E io_ok \in BOOLEAN :
          LET r == Logged(req[w], "select_doctors")
              store == fs[r.db_path]
              err == ExecuteError(store, "doctors", io_ok)
              hospital_dict ==
                  r.hospital_dict @@
                  [departments |-> r.departments,
                   doctors |-> SelectDoctors(store, r.id)]
          IN  IF err # NULL
              THEN RaiseWithConn(w, [r EXCEPT !.fault = err], SqliteError(err))
              ELSE /\ req' = [req EXCEPT ![w] =
                         ReturnFromLookup([r EXCEPT !.hospital_dict = NoBody,
                                                    !.departments = <<>>],
                                          hospital_dict)]
                   /\ openConns' = FinallyClose(openConns, "return")
    /\ UNCHANGED <<fs, imp, live>>

\* Lines 98-102, and the finally clause on the way out.
FetchUser(w) ==
    /\ req[w].pc = "select_user"
    /\ \E io_ok \in BOOLEAN :
          LET r == Logged(req[w], "select_user")
              store == fs[r.db_path]
              err == ExecuteError(store, "users", io_ok)
              rows == SelectUser(store, r.id)
          IN  IF err # NULL
              THEN RaiseWithConn(w, [r EXCEPT !.fault = err], SqliteError(err))
              ELSE IF rows = <<>>
              THEN RaiseWithConn(w, r, NotFound("User not found"))
              ELSE /\ req' = [req EXCEPT ![w] = Respond(r, 200, <<>>, rows[1])]
                   /\ openConns' = FinallyClose(openConns, "return")
    /\ UNCHANGED <<fs, imp, live>>

\* POST /call_watsonx, lines 159-166.
call_watsonx(w, ids, creds) ==
    /\ MayStart(w)
    /\ \E hospital_id \in ids, url \in creds, apikey \in creds :
          LET r == [IdleReq EXCEPT !.kind = "watsonx", !.id = hospital_id,
                                   !.url = url, !.apikey = apikey]
          IN  req' = [req EXCEPT ![w] =
                  IF ConfigMissing(url, apikey)
                  THEN Respond(r, ServerErrorStatus,
                      <<"WATSONX_URL and/or WATSONX_APIKEY environment variables are not set.">>,
                      NoBody)
                  ELSE [r EXCEPT !.pc = "client"]]
    /\ UNCHANGED <<fs, imp, openConns, live>>

\* Lines 168-177: Credentials, APIClient and ModelInference are constructed
\* against the endpoint, outside any try block.  An exception of the library
\* is unhandled: the framework answers 500.
ConstructClient(w) ==
    /\ req[w].pc = "client"
    /\ \E reachable \in BOOLEAN :
          LET r == Logged(req[w], "APIClient") IN
          req' = [req EXCEPT ![w] =
              IF reachable THEN [r EXCEPT !.pc = "lookup"]
              ELSE Respond(r, ServerErrorStatus, <<"Internal Server Error">>, NoBody)]
    /\ UNCHANGED <<fs, imp, openConns, live>>

\* Line 180: the call of get_hospital_details, which reads DB_PATH.
LookupHospital(w, envs) ==
    /\ req[w].pc = "lookup"
    /\ \E env \in envs :
          req' = [req EXCEPT ![w] =
              [@ EXCEPT !.pc = "connect", !.env = env,
                        !.db_path = HospitalDbPath(env)]]
    /\ UNCHANGED <<fs, imp, openConns, live>>

\* Lines 184-194: the prompt and model.generate_text(prompt).
GenerateText(w) ==
    /\ req[w].pc = "generate"
    /\ \E reachable \in BOOLEAN, text \in ModelOutputs :
          LET r == Logged(req[w], "generate_text") IN
          req' = [req EXCEPT ![w] =
              IF reachable THEN Respond(r, 200, <<>>, [response |-> text])
              ELSE Respond(r, ServerErrorStatus, <<"Internal Server Error">>, NoBody)]
    /\ UNCHANGED <<fs, imp, openConns, live>>

\* GET /health.
health_check(w) ==
    /\ MayStart(w)
    /\ req' = [req EXCEPT ![w] =
          Respond([IdleReq EXCEPT !.kind = "health"], 200, <<>>,
                  [status |-> "healthy"])]
    /\ UNCHANGED <<fs, imp, openConns, live>>

\* The response is sent and the worker is free.
SendResponse(w) ==
    /\ req[w].pc = "done"
    /\ req' = [req EXCEPT ![w] = IdleReq]
    /\ UNCHANGED <<fs, imp, openConns, live>>

\* A step of worker w, with the requests and the environment it may meet:
\* the ids clients ask for, the values of DB_PATH, and the values of
\* WATSONX_URL and WATSONX_APIKEY.
Handle(w, ids, envs, creds) ==
    \/ get_hospital_details(w, ids, envs)
    \/ get_user_details(w, ids, envs)
    \/ call_watsonx(w, ids, creds)
    \/ health_check(w)
    \/ Connect(w)
    \/ FetchHospital(w)
    \/ FetchDepartments(w)
    \/ FetchDoctors(w)
    \/ FetchUser(w)
    \/ ConstructClient(w)
    \/ LookupHospital(w, envs)
    \/ GenerateText(w)
    \/ SendResponse(w)

Service == \E w \in Slots : Handle(w, RequestIds, DbPathEnv, CredentialEnv)

(***************************************************************************)
(* The import scripts, one step per function main() calls.                 *)
(***************************************************************************)
ImpIdle == [script |-> "none", pc |-> "idle"]

\* The store a script writes.
ImportDbPath(script) == IF script = "hospital" THEN HOSPITAL_DB ELSE USERS_DB

\* main() up to create_database_connection.
create_database_connection(script) ==
    /\ imp.pc = "idle"
    /\ live \/ NoRequestInFlight
    /\ fs' = SqliteConnect(fs, ImportDbPath(script))
    /\ imp' = [script |-> script, pc |-> "connected"]
    /\ UNCHANGED <<req, openConns, live>>

CreateSchema ==
    /\ imp.pc = "connected"
    /\ fs' = [fs EXCEPT ![ImportDbPath(imp.script)] =
                IF imp.script = "hospital"
                THEN create_hospital_service_schema(@)
                ELSE create_user_metadata_table(@)]
    /\ imp' = [imp EXCEPT !.pc = "schema"]
    /\ UNCHANGED <<req, openConns, live>>

\* What load_json_data returns for a fixture file: the list it holds, one of
\* lists when the file may hold any.
Loaded(name, lists) ==
    IF fs[JSON].fixed THEN {fs[JSON][name]} ELSE lists

\* load_json_data, for every fixture of the script: the lists are drawn where
\* the insert steps use them.  A file that does not parse ends the run.
load_json_data ==
    /\ imp.pc = "schema"
    /\ \E parsed \in BOOLEAN :
          imp' = IF parsed THEN [imp EXCEPT !.pc = "loaded"] ELSE ImpIdle
    /\ UNCHANGED <<fs, req, openConns, live>>

\* An insert step's outcome: the commit and the next step, or the exception
\* that main() catches, after which the connection is closed.
ImportStep(result, next) ==
    /\ fs' = [fs EXCEPT ![ImportDbPath(imp.script)] = result.store]
    /\ imp' = IF result.ok THEN [imp EXCEPT !.pc = next] ELSE ImpIdle
    /\ UNCHANGED <<req, openConns, live>>

InsertHospitals ==
    /\ imp.script = "hospital" /\ imp.pc = "loaded"
    /\ \E data \in Loaded("hospitals", SeqsUpTo(HospitalRecords, MaxHospitals)) :
          /\ Len(fs[HOSPITAL_DB].hospitals) + Len(data) <= MaxHospitals
          /\ ImportStep(insert_hospitals(fs[HOSPITAL_DB], data), "hospitals")

InsertDepartments ==
    /\ imp.script = "hospital" /\ imp.pc = "hospitals"
    /\ \E data \in Loaded("departments",
                         SeqsUpTo(DepartmentRecords, MaxDepartments)) :
          /\ Len(fs[HOSPITAL_DB].departments) + Len(data) <= MaxDepartments
          /\ ImportStep(insert_departments(fs[HOSPITAL_DB], data), "departments")

InsertDoctors ==
    /\ imp.script = "hospital" /\ imp.pc = "departments"
    /\ \E data \in Loaded("doctors", SeqsUpTo(DoctorRecords, MaxDoctors)) :
          /\ Len(fs[HOSPITAL_DB].doctors) + Len(data) <= MaxDoctors
          /\ ImportStep(insert_doctors(fs[HOSPITAL_DB], data), "inserted")

InsertUserMetadata ==
    /\ imp.script = "user" /\ imp.pc = "loaded"
    /\ \E data \in Loaded("users", SeqsUpTo(UserRecords, MaxUsers)) :
          /\ Len(fs[USERS_DB].users) + Len(data) <= MaxUsers
          /\ ImportStep(insert_user_metadata(fs[USERS_DB], data), "inserted")

\* The view (a stored query that the service never reads), verify_data's
\* reads, and conn.close().
FinishImport ==
    /\ imp.pc = "inserted"
    /\ imp' = ImpIdle
    /\ UNCHANGED <<fs, req, openConns, live>>

Import ==
    \/ \E script \in {"hospital", "user"} : create_database_connection(script)
    \/ CreateSchema
    \/ load_json_data
    \/ InsertHospitals
    \/ InsertDepartments
    \/ InsertDoctors
    \/ InsertUserMetadata
    \/ FinishImport

Init ==
    /\ fs \in {ScriptDir([p \in Paths |-> IF p = USERS_DB THEN u ELSE NoFile],
                           AnyJson) :
                  u \in {NoFile, LegacyUsersFile}}
    /\ imp = ImpIdle
    /\ req = [w \in Slots |-> IF w = 1 THEN IdleReq ELSE OffReq]
    /\ openConns = 0
    /\ live = FALSE

Next == Import \/ Service

Spec == Init /\ [][Next]_vars

(***************************************************************************)
(* The service under load: the stores are provisioned, every thread of the *)
(* pool is started, no script runs.  The deployment sets both watsonx      *)
(* variables, and DB_PATH to the hospital store or not at all; clients ask *)
(* for ids 1 and 2.                                                        *)
(***************************************************************************)
\* hospital_service.db after a run of its script with a fixture of one
\* hospital and no department or doctor.
ProvisionedHospitalStores ==
    {insert_hospitals(create_hospital_service_schema(EmptyFile), <<rec>>).store :
        rec \in {r \in HospitalRecords : r.phone # NULL}}

\* users.db after a run of its script with a fixture of one user.
ProvisionedUserStores ==
    {insert_user_metadata(create_user_metadata_table(EmptyFile), <<rec>>).store :
        rec \in {r \in UserRecords : r.date_of_birth # NULL}}

InitPool ==
    /\ fs \in {ScriptDir([p \in Paths |-> IF p = HOSPITAL_DB THEN h ELSE u],
                           AnyJson) :
                  h \in ProvisionedHospitalStores \cup {NoFile},
                  u \in ProvisionedUserStores}
    /\ imp = ImpIdle
    /\ req = [w \in Slots |-> IdleReq]
    /\ openConns = 0
    /\ live = FALSE

PoolStep(w) == Handle(w, {1, 2}, {Unset, HOSPITAL_DB}, {"set"})

NextPool == \E w \in Slots : PoolStep(w)

SpecPool == InitPool /\ [][NextPool]_vars

(***************************************************************************)
(* The hospital script run while the service is up: its steps interleave   *)
(* with the statements of a hospital lookup.  Each insert step is one      *)
(* commit; each SELECT of the lookup reads the store as last committed.    *)
(***************************************************************************)
InitLive ==
    /\ fs = ScriptDir([p \in Paths |-> NoFile], AnyJson)
    /\ imp = ImpIdle
    /\ req = [w \in Slots |-> IF w = 1 THEN IdleReq ELSE OffReq]
    /\ openConns = 0
    /\ live = TRUE

NextLive ==
    \/ create_database_connection("hospital")
    \/ CreateSchema
    \/ load_json_data
    \/ InsertHospitals
    \/ InsertDepartments
    \/ InsertDoctors
    \/ FinishImport
    \/ \E w \in Slots :
          \/ get_hospital_details(w, RequestIds, {Unset})
          \/ Connect(w)
          \/ FetchHospital(w)
          \/ FetchDepartments(w)
          \/ FetchDoctors(w)
          \/ SendResponse(w)

SpecLive == InitLive /\ [][NextLive]_vars

(***************************************************************************)
(* The scripts run, and run again, over fixture files that stay as they    *)
(* are.  The service is not up.                                            *)
(***************************************************************************)
FixturesOfHospitalScript ==
    {FixedJson(h, d, doc, <<>>) :
        h \in SeqsUpTo(HospitalRecords, 1),
        d \in SeqsUpTo(DepartmentRecords, MaxDepartments),
        doc \in SeqsUpTo(DoctorRecords, 1)}

FixturesOfUserScript ==
    {FixedJson(<<>>, <<>>, <<>>, u) : u \in SeqsUpTo(UserRecords, 1)}

InitRerun ==
    /\ fs \in {ScriptDir([p \in Paths |-> NoFile], json) :
                  json \in FixturesOfHospitalScript \cup FixturesOfUserScript}
    /\ imp = ImpIdle
    /\ req = [w \in Slots |-> OffReq]
    /\ openConns = 0
    /\ live = FALSE

SpecRerun == InitRerun /\ [][Import]_vars

(***************************************************************************)
(* Properties.  A request is judged when its handler has ended (pc =       *)
(* "done"); in Spec nothing writes the store it read before its response   *)
(* is sent.                                                                *)
(***************************************************************************)
Done(w) == req[w].pc = "done"

StoreRead(w) == fs[req[w].db_path]

NoDuplicates(rows) == \A i, j \in DOMAIN rows : rows[i] = rows[j] => i = j

\* rows holds exactly the rows of table whose hospital_id is hospital_id.
ExactlyChildrenOf(rows, table, hospital_id) ==
    /\ NoDuplicates(rows)
    /\ Range(rows) = {row \in Range(table) : row.hospital_id = hospital_id}

HospitalColumns ==
    {"id", "name", "city", "state", "phone", "created_at", "updated_at"}

\* C1: for a hospital id present in storage, get_hospital_details returns the
\* hospital's own fields, a departments list holding exactly the department
\* rows of that hospital and a doctors list holding exactly its doctor rows.
C1_HospitalViewExact ==
    \A w \in Workers :
        (Done(w) /\ req[w].kind = "hospital" /\ req[w].fault = NULL
            /\ req[w].id \in IdsOf(StoreRead(w).hospitals)) =>
        /\ req[w].status = 200
        /\ DOMAIN req[w].body = HospitalColumns \cup {"departments", "doctors"}
        /\ \E h \in Range(StoreRead(w).hospitals) :
              /\ h.id = req[w].id
              /\ \A c \in HospitalColumns : req[w].body[c] = h[c]
        /\ ExactlyChildrenOf(req[w].body.departments,
                             StoreRead(w).departments, req[w].id)
        /\ ExactlyChildrenOf(req[w].body.doctors,
                             StoreRead(w).doctors, req[w].id)

\* A view that holds a department of its hospital while the store also holds
\* a department of another hospital.
C1_Witness ==
    \E w \in Workers :
        /\ Done(w) /\ req[w].kind = "hospital" /\ req[w].status = 200
        /\ Len(req[w].body.departments) = 1
        /\ Len(StoreRead(w).departments) = 2

\* C2: an id absent from a readable store gives 404 with the handler's own
\* detail and no object; the 404 is not turned into a 500.
C2_AbsentIdIsNotFound ==
    \A w \in Workers :
        /\ (Done(w) /\ req[w].kind = "hospital" /\ req[w].fault = NULL
               /\ req[w].id \notin IdsOf(StoreRead(w).hospitals)) =>
              /\ req[w].status = 404
              /\ req[w].detail = <<"Hospital not found">>
              /\ req[w].body = NoBody
        /\ (Done(w) /\ req[w].kind = "user" /\ req[w].fault = NULL
               /\ req[w].id \notin IdsOf(StoreRead(w).users)) =>
              /\ req[w].status = 404
              /\ req[w].detail = <<"User not found">>
              /\ req[w].body = NoBody

\* A 404 from a store that holds another hospital.
C2_Witness ==
    \E w \in Workers :
        /\ Done(w) /\ req[w].kind = "hospital" /\ req[w].status = 404
        /\ StoreRead(w).hospitals # <<>>

Absent(value) == value \in {Unset, ""}

\* C3: with the endpoint URL or the access key unset or empty, call_watsonx
\* ends in the configuration error before any client is constructed, any
\* storage is opened or any text generation is submitted.
C3_ConfigurationErrorFirst ==
    \A w \in Workers :
        (req[w].kind = "watsonx" /\ (Absent(req[w].url) \/ Absent(req[w].apikey))) =>
        /\ Done(w)
        /\ req[w].status = 500
        /\ req[w].detail =
              <<"WATSONX_URL and/or WATSONX_APIKEY environment variables are not set.">>
        /\ req[w].log = <<>>
        /\ openConns = 0

\* The request with the URL set and the key empty.
C3_Witness ==
    \E w \in Workers :
        /\ Done(w) /\ req[w].kind = "watsonx"
        /\ req[w].url = "set" /\ req[w].apikey = ""

\* C4: with both credentials present and a hospital id that no store holds,
\* call_watsonx ends in a 500 whose detail carries "Hospital not found",
\* whatever the state of the inference endpoint.
C4_UpstreamDataError ==
    \A w \in Workers :
        (Done(w) /\ req[w].kind = "watsonx"
            /\ ~Absent(req[w].url) /\ ~Absent(req[w].apikey)
            /\ req[w].fault = NULL
            /\ "hospitals" \in fs[HOSPITAL_DB].tables
            /\ \A p \in Paths : req[w].id \notin IdsOf(fs[p].hospitals)) =>
        /\ req[w].status = 500
        /\ \E i \in DOMAIN req[w].detail : req[w].detail[i] = "Hospital not found"

\* The pcs at which a handler holds a connection.
ConnectedPcs ==
    {"select_hospital", "select_departments", "select_doctors", "select_user"}

\* C5: every connection a handler opened is closed when the handler ends,
\* on every exit path: the open connections are those of the requests that
\* are between connect and their exit.
C5_ConnectionsClosed ==
    openConns = Cardinality({w \in Workers : req[w].pc \in ConnectedPcs})

\* A request that opened a connection and ended in 404.
C5_Witness ==
    \E w \in Workers :
        /\ Done(w) /\ req[w].status = 404
        /\ \E i \in DOMAIN req[w].log : req[w].log[i] = "connect"
        /\ openConns = 0

\* C6: no step of the read API changes the stores or creates a store file.
C6_ReadOnly == [][(req' # req) => (fs' = fs)]_vars

\* C7: a storage fault is answered 500 with the driver's message, with no
\* object and no further storage operation after the one that failed.
C7_StorageErrorSurfaced ==
    \A w \in Workers :
        (Done(w) /\ req[w].kind \in {"hospital", "user"} /\ req[w].fault # NULL) =>
        /\ req[w].status = 500
        /\ req[w].detail = <<"Database error: ", req[w].fault>>
        /\ req[w].body = NoBody
        /\ NoDuplicates(req[w].log)

\* A read that failed on an open connection.
C7_Witness ==
    \E w \in Workers :
        /\ Done(w) /\ req[w].kind = "user"
        /\ req[w].fault = "no such table: users"
        /\ Len(req[w].log) = 2

ElevenFields ==
    {"id", "first_name", "last_name", "date_of_birth", "state", "address",
     "phone", "email", "gender", "created_at", "updated_at"}

\* C8: for a user id present in storage, get_user_details returns the eleven
\* documented fields with the stored values and no other field.
C8_UserViewExact ==
    \A w \in Workers :
        (Done(w) /\ req[w].kind = "user" /\ req[w].fault = NULL
            /\ req[w].id \in IdsOf(StoreRead(w).users)) =>
        /\ req[w].status = 200
        /\ DOMAIN req[w].body = ElevenFields
        /\ \E u \in Range(StoreRead(w).users) :
              /\ u.id = req[w].id
              /\ \A c \in ElevenFields : req[w].body[c] = u[c]

\* A user returned from a table that holds a twelfth column.
C8_Witness ==
    \E w \in Workers :
        /\ Done(w) /\ req[w].kind = "user" /\ req[w].status = 200
        /\ "ssn" \in DOMAIN StoreRead(w).users[1]

\* The hospital script has committed its three insert steps.
HospitalsImported == imp.script = "hospital" /\ imp.pc = "inserted"

\* C9: once the import has run, every department row refers to a hospital
\* row of the store.
C9_DepartmentsReferToHospitals ==
    HospitalsImported =>
        \A d \in Range(fs[HOSPITAL_DB].departments) :
            d.hospital_id \in IdsOf(fs[HOSPITAL_DB].hospitals)

\* C10: once the import has run, every doctor row refers to a hospital row
\* and to a department row of that same hospital, so that a doctor of a
\* hospital view has its department in the view.
C10_DoctorsReferToOwnDepartment ==
    /\ HospitalsImported =>
          \A d \in Range(fs[HOSPITAL_DB].doctors) :
              /\ d.hospital_id \in IdsOf(fs[HOSPITAL_DB].hospitals)
              /\ \E dep \in Range(fs[HOSPITAL_DB].departments) :
                    dep.id = d.department_id /\ dep.hospital_id = d.hospital_id
    /\ \A w \in Workers :
          (Done(w) /\ req[w].kind = "hospital" /\ req[w].status = 200) =>
              \A d \in Range(req[w].body.doctors) :
                  \E dep \in Range(req[w].body.departments) :
                      dep.id = d.department_id

\* The worker is inside model.generate_text, which has not returned.
InInferenceCall(w) == req[w].pc = "generate"

\* C11 as stated: while any number of call_watsonx requests are blocked on
\* the inference endpoint, some worker that is not blocked remains and can go
\* on, so that every other request is still handled.
C11_AnyNumberBlocked ==
    (\E w \in Workers : InInferenceCall(w)) =>
    \E v \in Workers : ~InInferenceCall(v) /\ ENABLED PoolStep(v)

\* C11, amended: an inference call that does not return blocks only the
\* worker that issued it; every worker that is not inside an inference call
\* can take its next step (take up a request, or go on with the one it is
\* handling) whatever the other workers are doing.
C11_BlocksOnlyItsWorker ==
    \A w \in Workers : ~InInferenceCall(w) => ENABLED PoolStep(w)

\* One worker is inside an inference call while another has handled a
\* hospital lookup to completion.
C11_Witness ==
    \E w, v \in Workers :
        /\ w # v
        /\ InInferenceCall(w)
        /\ Done(v) /\ req[v].kind = "hospital" /\ req[v].status = 200

\* Faults of the device under the store, as opposed to what the store holds.
DeviceFaults == {"disk I/O error", "unable to open database file"}

\* Two handled reads of the same kind, for the same id, under the same
\* DB_PATH, neither of which met a fault of the device.
SameRead(w, v) ==
    /\ Done(w) /\ Done(v)
    /\ req[w].kind \in {"hospital", "user"} /\ req[v].kind = req[w].kind
    /\ req[w].id = req[v].id /\ req[w].env = req[v].env
    /\ req[w].fault \notin DeviceFaults /\ req[v].fault \notin DeviceFaults

\* C12: calls of get_hospital_details or get_user_details with the same id,
\* while no import writes the stores and the configuration stays as it is,
\* return identical results (outcome, fields, values, list order), whatever
\* other reads ran in between.
C12_RepeatedReadsAgree ==
    \A w, v \in Workers :
        SameRead(w, v) =>
        /\ req[w].status = req[v].status
        /\ req[w].detail = req[v].detail
        /\ req[w].body = req[v].body

\* The operations of a request that contact the inference endpoint.
EndpointOps == {"APIClient", "generate_text"}

\* call_watsonx ended with the error of a failed hospital lookup.
LookupFailed(w) ==
    /\ Done(w) /\ req[w].kind = "watsonx"
    /\ req[w].detail # <<>>
    /\ req[w].detail[1] = "Failed to retrieve hospital data: "

\* The operations of a request are in the order of the handler, each at most
\* once, and the text generation comes after a lookup that succeeded.
InHandlerOrder(log) ==
    /\ NoDuplicates(log)
    /\ \A i \in DOMAIN log :
          log[i] = "generate_text" =>
          /\ i = Len(log)
          /\ \E j \in 1..(i - 1) : log[j] = "select_doctors"

\* C13: a call_watsonx request is one linear sequence (configuration check,
\* hospital aggregation, prompt submission): text generation is submitted at
\* most once, only after the configuration check passed and the lookup
\* succeeded; a request whose lookup fails has had no contact with the
\* inference endpoint; a failure ends the request without retry.
C13_LinearSequence ==
    \A w \in Workers :
        req[w].kind = "watsonx" =>
        /\ InHandlerOrder(req[w].log)
        /\ req[w].log # <<>> => ~ConfigMissing(req[w].url, req[w].apikey)
        /\ LookupFailed(w) => Range(req[w].log) \cap EndpointOps = {}

\* Under this value of DB_PATH get_hospital_details reads a hospital store.
HospitalLookupsWork(env) == "hospitals" \in fs[HospitalDbPath(env)].tables

\* C14: the storage location of each dataset is overridden independently:
\* under any DB_PATH with which get_hospital_details reads a hospital store,
\* get_user_details still reads the user dataset and succeeds for the user
\* ids present in it.
C14_IndependentOverrides ==
    \A w \in Workers :
        (Done(w) /\ req[w].kind = "user" /\ req[w].fault \notin DeviceFaults
            /\ HospitalLookupsWork(req[w].env)
            /\ "users" \in fs[USERS_DB].tables
            /\ req[w].id \in IdsOf(fs[USERS_DB].users)) =>
        /\ req[w].db_path = USERS_DB
        /\ req[w].status = 200

\* A hospital lookup that returned a hospital.
ReturnedHospital(w) ==
    Done(w) /\ req[w].kind = "hospital" /\ req[w].status = 200

\* The lists of the view are the child rows of the hospital in store.
ChildListsOf(w, store) ==
    /\ ExactlyChildrenOf(req[w].body.departments, store.departments, req[w].id)
    /\ ExactlyChildrenOf(req[w].body.doctors, store.doctors, req[w].id)

\* C15 as stated: a lookup that runs concurrently with the import returns a
\* view of one storage state: its departments and doctors lists are exactly
\* the child rows of the hospital in the state in which the hospital row was
\* read.
C15_SingleStateView ==
    \A w \in Workers : ReturnedHospital(w) => ChildListsOf(w, req[w].snapshot)

\* C15, amended: a lookup during which no import step commits returns a
\* view of one storage state; when the child tables are still as they were
\* when the hospital row was read, the lists are exactly the hospital's
\* child rows in that state.
C15_ViewOfUnchangedStore ==
    \A w \in Workers :
        (ReturnedHospital(w) /\ req[w].snapshot = ChildTables(StoreRead(w))) =>
        ChildListsOf(w, req[w].snapshot)

\* A lookup returned a hospital with a doctor while the script was running
\* and had not committed since the hospital row was read.
C15_Witness ==
    \E w \in Workers :
        /\ ReturnedHospital(w) /\ req[w].snapshot = ChildTables(StoreRead(w))
        /\ req[w].body.doctors # <<>>
        /\ imp.pc \notin {"idle", "inserted"}

\* The list a fixture file holds, where the files stay as they are.
Fixture(name) == fs[JSON][name]

\* C16: the import creates each fixture entity once: after the scripts have
\* run against a store, a re-run against a populated store included, every
\* hospital, department, doctor and user fixture record corresponds to
\* exactly one stored row.
C16_EachFixtureRecordOnce ==
    imp.pc = "inserted" =>
    IF imp.script = "hospital"
    THEN /\ fs[HOSPITAL_DB].hospitals =
               [i \in DOMAIN Fixture("hospitals") |->
                   HospitalRow(i, Fixture("hospitals")[i])]
         /\ fs[HOSPITAL_DB].departments =
               [i \in DOMAIN Fixture("departments") |->
                   DepartmentRow(i, Fixture("departments")[i])]
         /\ fs[HOSPITAL_DB].doctors =
               [i \in DOMAIN Fixture("doctors") |->
                   DoctorRow(i, Fixture("doctors")[i])]
    ELSE fs[USERS_DB].users =
             [i \in DOMAIN Fixture("users") |->
                 UserRow(i, Fixture("users")[i], HasExtraColumn(fs[USERS_DB]))]

\* The table the script is about to insert, and the step after it.
InsertPcs == {"loaded", "hospitals", "departments"}

TableAt(script, pc) ==
    IF script = "user" THEN "users"
    ELSE IF pc = "loaded" THEN "hospitals"
    ELSE IF pc = "hospitals" THEN "departments"
    ELSE "doctors"

PcAfter(script, pc) ==
    IF script = "user" THEN "inserted"
    ELSE IF pc = "loaded" THEN "hospitals"
    ELSE IF pc = "hospitals" THEN "departments"
    ELSE "inserted"

\* Some record of the fixture of table is one the INSERT rejects.
HasRejectedRecord(table) ==
    LET store == fs[ImportDbPath(imp.script)]
        data == Fixture(table)
    IN  \E i \in DOMAIN data :
          IF table = "hospitals" THEN ~HospitalAccepted(store, data[i])
          ELSE IF table = "departments" THEN ~DepartmentAccepted(store, data[i])
          ELSE IF table = "doctors" THEN ~DoctorAccepted(store, data[i])
          ELSE ~UserAccepted(store, data[i])

\* C17: each per-table insertion step of the import is all-or-nothing: if
\* inserting any record of the table fails, the run stops, none of that
\* table's records from this run is persisted and no later table is
\* inserted, while the tables whose step completed earlier in the run stay
\* committed; otherwise every record of the table is persisted and only
\* that table changes.
C17_InsertAllOrNothing ==
    [][(imp.pc \in InsertPcs /\ imp' # imp) =>
       LET path == ImportDbPath(imp.script)
           table == TableAt(imp.script, imp.pc)
       IN  IF HasRejectedRecord(table)
           THEN imp' = ImpIdle /\ fs' = fs
           ELSE /\ imp' = [imp EXCEPT !.pc = PcAfter(imp.script, imp.pc)]
                /\ Len(fs'[path][table]) =
                      Len(fs[path][table]) + Len(Fixture(table))
                /\ \A t \in (HospitalTables \cup {"users"}) \ {table} :
                      fs'[path][t] = fs[path][t]]_vars

\* A run stopped at insert_departments, whose fixture holds a record that is
\* accepted before one that is rejected: the hospitals of the run are
\* committed, no department is.
C17_Witness ==
    /\ imp = ImpIdle
    /\ fs[HOSPITAL_DB].hospitals # <<>>
    /\ fs[HOSPITAL_DB].departments = <<>>
    /\ Len(Fixture("departments")) = 2
    /\ DepartmentAccepted(fs[HOSPITAL_DB], Fixture("departments")[1])
    /\ ~DepartmentAccepted(fs[HOSPITAL_DB], Fixture("departments")[2])
====
